---- MODULE Spec2Model ----
(***************************************************************************)
(* Optimizacion_Logistica.py: a CVRPTW batch run.  main() loads two sheets,*)
(* builds the travel-time matrix origin by origin, builds the routing      *)
(* model (capacity and time dimensions), computes the staggered releases,  *)
(* calls the routing solver, walks the returned solution into a table of   *)
(* rows and exports the table.                                             *)
(*                                                                         *)
(* Conventions.  Python lists are 0-based, TLA+ sequences are 1-based:     *)
(* Python index i is index i+1 here, so the depot (Python 0) is node 1 and *)
(* vehicle v_id is vehicle v_id+1.  A clock string "HH:MM" is the pair     *)
(* <<HH, MM>>; the empty string in a time column is <<>>.  Python None for *)
(* a DataFrame or a matrix is <<>> (a loaded sheet always has the depot    *)
(* row, so it is never the empty sequence).                                *)
(***************************************************************************)
EXTENDS Integers, Sequences, FiniteSets, TLC

\* ---------------------------------------------------------------- bounds
MaxVehicles == 3

\* ------------------------------------------------------ program constants
depot == 1
slack_max == 60
time_capacity == 1440
FACTOR_NUM == 3
FACTOR_DEN == 2

None == <<>>
NoSolution == [route |-> <<>>, cumul |-> <<>>]

\* Configured values of HORA_INICIO_CARGA tried by the model.
StartClocks == {<<7, 30>>, <<0, 30>>}

\* --------------------------------------------------------- time utilities
time_to_minutes(time_str) == time_str[1] * 60 + time_str[2]

\* f"{val//60:02d}:{val%60:02d}"
FormatHHMM(val) == <<val \div 60, val % 60>>

\* ------------------------------------------------------------ sheet data
TruckIds == <<"T1", "T2", "T3", "T4", "T5", "T6">>

VehicleKinds ==
    { [capacidad_cajas |-> 3, tiempo_carga_min |-> 20],
      [capacidad_cajas |-> 2, tiempo_carga_min |-> 15],
      [capacidad_cajas |-> 2, tiempo_carga_min |-> 0] }

\* Contents of the sheet "Vehiculos": 1..MaxVehicles rows.
VehicleSheets ==
    UNION { { [i \in 1..n |->
                 [id_camion |-> TruckIds[i],
                  capacidad_cajas |-> f[i].capacidad_cajas,
                  tiempo_carga_min |-> f[i].tiempo_carga_min]] :
              f \in [1..n -> VehicleKinds] } : n \in 1..MaxVehicles }

Loc(t, dem, op, cl, serv) ==
    [tienda |-> t, demanda |-> dem, hora_apertura |-> op,
     hora_cierre |-> cl, tiempo_servicio |-> serv]

Bodega == Loc("Bodega", 0, <<0, 0>>, <<23, 59>>, 0)

\* Contents of the sheet "Datos" together with what the Distance Matrix
\* service answers for it (raw driving seconds, origin row by origin row).
DaySheet ==
    [rows |-> << Bodega,
                 Loc("A", 2, <<8, 30>>, <<9, 30>>, 10),
                 Loc("B", 1, <<9, 0>>, <<10, 0>>, 5) >>,
     seconds |-> << <<0, 767, 1010>>,
                    <<790, 3, 570>>,
                    <<975, 585, 0>> >>]

NightSheet ==
    [rows |-> << Bodega, Loc("N", 1, <<23, 0>>, <<23, 15>>, 5) >>,
     seconds |-> << <<0, 1190>>, <<2175, 12>> >>]

EarlySheet ==
    [rows |-> << Bodega, Loc("E", 1, <<0, 40>>, <<1, 30>>, 5) >>,
     seconds |-> << <<0, 364>>, <<380, 0>> >>]

DepotOnlySheet ==
    [rows |-> << Bodega >>, seconds |-> << <<25>> >>]

DataSheets == {DaySheet, NightSheet, EarlySheet, DepotOnlySheet}

\* Outcomes of load_all_data_from_sheets other than success: a required
\* column is missing in one of the sheets, or an exception is caught.
LoadFailures == {"missing_cols_datos", "missing_cols_vehiculos", "exception"}

VARIABLES
    pc,                      \* position of main()
    HORA_INICIO_CARGA,       \* configured loading-start clock
    world,                   \* the Datos sheet and the map service behind it
    df_locations,            \* rows of "Datos" (None if loading failed)
    df_vehicles,             \* rows of "Vehiculos" (None if loading failed)
    time_matrix,             \* rows built so far by get_time_matrix / result
    data,                    \* create_data_model's dictionary
    start_loading_times,     \* list built by the staggered-release loop
    current_time,            \* dock clock of the staggered-release loop
    start_min,               \* SetMin posted on CumulVar(Start(v)), per v
    node_range,              \* SetRange posted on CumulVar(node), per node
    solve_called,            \* SolveWithParameters has been called
    solution,                \* what SolveWithParameters returned
    vehicle_id,              \* loop variable of process_solution
    vehicles_used,           \* counter of process_solution
    solution_data_for_export,\* table built by process_solution
    export_called,           \* export_solution_to_sheet has been called
    rutas                    \* contents of the sheet "Rutas"

vars == << pc, HORA_INICIO_CARGA, world, df_locations, df_vehicles,
           time_matrix, data, start_loading_times, current_time, start_min,
           node_range, solve_called, solution, vehicle_id, vehicles_used,
           solution_data_for_export, export_called, rutas >>

NoData == [time_matrix |-> <<>>, time_windows |-> <<>>, demands |-> <<>>,
           service_times |-> <<>>, num_vehicles |-> 0,
           vehicle_capacities |-> <<>>]

Init ==
    /\ pc = "load"
    /\ HORA_INICIO_CARGA \in StartClocks
    /\ world = [seconds |-> <<>>]
    /\ df_locations = None
    /\ df_vehicles = None
    /\ time_matrix = <<>>
    /\ data = NoData
    /\ start_loading_times = <<>>
    /\ current_time = 0
    /\ start_min = <<>>
    /\ node_range = <<>>
    /\ solve_called = FALSE
    /\ solution = NoSolution
    /\ vehicle_id = 1
    /\ vehicles_used = 0
    /\ solution_data_for_export = <<>>
    /\ export_called = FALSE
    /\ rutas = <<>>

\* ------------------------------------------------ load_all_data_from_sheets
\* main(): df_locations is None -> return
AfterLoad(df) == IF df = None THEN "done" ELSE "matrix"

LoadData ==
    /\ pc = "load"
    /\ \/ \E sheet \in DataSheets, veh \in VehicleSheets :
            /\ df_locations' = sheet.rows
            /\ df_vehicles' = veh
            /\ world' = [seconds |-> sheet.seconds]
       \/ \E failure \in LoadFailures :
            /\ df_locations' = None
            /\ df_vehicles' = None
            /\ world' = world
    /\ pc' = AfterLoad(df_locations')
    /\ UNCHANGED << HORA_INICIO_CARGA, time_matrix, data, start_loading_times,
                    current_time, start_min, node_range, solve_called,
                    solution, vehicle_id, vehicles_used,
                    solution_data_for_export, export_called, rutas >>

\* ----------------------------------------------------------- get_time_matrix
\* An element of a Distance Matrix row: with status OK it carries a
\* duration, with any other status it carries the status only.
OkElement(secs) == [status |-> "OK", duration |-> secs]
FailedElement == [status |-> "NOT_FOUND"]

OkResponse(i) == [j \in 1..Len(world.seconds[i]) |-> OkElement(world.seconds[i][j])]

\* What gmaps.distance_matrix may answer for origin i: every element OK, or
\* exactly one element failed.
Responses(i) ==
    {OkResponse(i)} \cup
    { [OkResponse(i) EXCEPT ![j] = FailedElement] : j \in 1..Len(world.seconds[i]) }

\* int((element['duration']['value'] / 60) * slowdown_factor) + 1
AdjustedMinutes(secs) == (secs * FACTOR_NUM) \div (60 * FACTOR_DEN) + 1

\* element['duration'] raises KeyError on an element without a duration
RowRaises(elements) == \E j \in 1..Len(elements) : "duration" \notin DOMAIN elements[j]

time_row(elements) == [j \in 1..Len(elements) |-> AdjustedMinutes(elements[j].duration)]

\* for i in range(len(time_matrix)): time_matrix[i][i] = 0
ForceDiagonal(m) == [i \in 1..Len(m) |-> [m[i] EXCEPT ![i] = 0]]

\* the rows built so far are returned when a row cannot be built
MatrixFailure_mut(partial) == partial

\* what get_time_matrix returns when a row cannot be built
MatrixFailure(partial) == None

\* main(): time_matrix is None -> return
AfterMatrix(m) == IF m = None THEN "done" ELSE "model"

MatrixUnchanged ==
    UNCHANGED << HORA_INICIO_CARGA, world, df_locations, df_vehicles, data,
                 start_loading_times, current_time, start_min, node_range,
                 solve_called, solution, vehicle_id, vehicles_used,
                 solution_data_for_export, export_called, rutas >>

\* One iteration of the loop over origins; the last one also forces the
\* diagonal and returns.
MatrixRow ==
    /\ pc = "matrix"
    /\ Len(time_matrix) < Len(df_locations)
    /\ LET i == Len(time_matrix) + 1 IN
       \E elements \in Responses(i) :
          IF elements[1].status # "OK" \/ RowRaises(elements)
          THEN /\ time_matrix' = MatrixFailure(time_matrix)
               /\ pc' = AfterMatrix(time_matrix')
          ELSE /\ time_matrix' =
                    IF i = Len(df_locations)
                    THEN ForceDiagonal(Append(time_matrix, time_row(elements)))
                    ELSE Append(time_matrix, time_row(elements))
               /\ pc' = IF i = Len(df_locations) THEN AfterMatrix(time_matrix')
                                                 ELSE "matrix"
    /\ MatrixUnchanged

\* gmaps.distance_matrix raises ApiError (or anything else): caught, None
MatrixApiError ==
    /\ pc = "matrix"
    /\ Len(time_matrix) < Len(df_locations)
    /\ time_matrix' = MatrixFailure(time_matrix)
    /\ pc' = AfterMatrix(time_matrix')
    /\ MatrixUnchanged

\* ---------------------------------------------------------- create_data_model
create_data_model(locs, vehs, matrix) ==
    [time_matrix |-> matrix,
     time_windows |-> [j \in 1..Len(locs) |->
                         <<time_to_minutes(locs[j].hora_apertura),
                           time_to_minutes(locs[j].hora_cierre)>>],
     demands |-> [j \in 1..Len(locs) |-> locs[j].demanda],
     service_times |-> [j \in 1..Len(locs) |-> locs[j].tiempo_servicio],
     num_vehicles |-> Len(vehs),
     vehicle_capacities |-> [v \in 1..Len(vehs) |-> vehs[v].capacidad_cajas]]

\* main(), from create_data_model to the start of the staggered-release
\* loop: the routing model and its two dimensions are created (their
\* constraints are the definitions of the solver section below) and the dock
\* clock starts at hora_inicio_min.
BuildModel ==
    /\ pc = "model"
    /\ data' = create_data_model(df_locations, df_vehicles, time_matrix)
    /\ start_loading_times' = <<>>
    /\ current_time' = time_to_minutes(HORA_INICIO_CARGA)
    /\ pc' = "stagger"
    /\ UNCHANGED << HORA_INICIO_CARGA, world, df_locations, df_vehicles,
                    time_matrix, start_min, node_range, solve_called,
                    solution, vehicle_id, vehicles_used,
                    solution_data_for_export, export_called, rutas >>

\* ------------------------------------------------- staggered-release loop
tiempos_de_carga == [v \in 1..Len(df_vehicles) |-> df_vehicles[v].tiempo_carga_min]

\* departure_time = current_time + tiempos_de_carga[v_id]
departure_time(now, v) == now + tiempos_de_carga[v]

\* the dock clock is not advanced: every vehicle starts loading at S
NextDockTime_mut(now, departure) == now

\* current_time = departure_time
NextDockTime(now, departure) == departure

\* One iteration of "for v_id in range(data['num_vehicles'])".
StaggerStep ==
    /\ pc = "stagger"
    /\ LET v == Len(start_loading_times) + 1 IN
       /\ v <= data.num_vehicles
       /\ start_loading_times' = Append(start_loading_times, current_time)
       /\ start_min' = Append(start_min, departure_time(current_time, v))
       /\ current_time' = NextDockTime(current_time, departure_time(current_time, v))
       /\ pc' = IF v = data.num_vehicles THEN "windows" ELSE "stagger"
    /\ UNCHANGED << HORA_INICIO_CARGA, world, df_locations, df_vehicles,
                    time_matrix, data, node_range, solve_called, solution,
                    vehicle_id, vehicles_used, solution_data_for_export,
                    export_called, rutas >>

\* no SetRange is posted: every node keeps the dimension's own range
WindowRange_mut(loc_idx) == <<0, time_capacity>>

\* for loc_idx, time_win in enumerate(data['time_windows']):
\*     if loc_idx == data['depot']: continue
\*     CumulVar(NodeToIndex(loc_idx)).SetRange(time_win[0], time_win[1])
\* The depot keeps the dimension's own range.
WindowRange(loc_idx) ==
    IF loc_idx = depot THEN <<0, time_capacity>> ELSE data.time_windows[loc_idx]

SetWindows ==
    /\ pc = "windows"
    /\ node_range' = [loc_idx \in 1..Len(data.time_windows) |-> WindowRange(loc_idx)]
    /\ pc' = "solve"
    /\ UNCHANGED << HORA_INICIO_CARGA, world, df_locations, df_vehicles,
                    time_matrix, data, start_loading_times, current_time,
                    start_min, solve_called, solution, vehicle_id,
                    vehicles_used, solution_data_for_export, export_called,
                    rutas >>

\* ------------------------------------------------------- the routing solver
\* SolveWithParameters is library code.  It returns None or an assignment
\* that satisfies every constraint main() posted; the definitions below are
\* those constraints.  A solution is [route, cumul]: route[v] is the sequence
\* of nodes between Start(v) and End(v) along NextVar, cumul[v] the values of
\* the time dimension's CumulVar at Start(v), at each of those nodes and at
\* End(v).

\* time_callback(from_index, to_index)
time_callback(from_node, to_node) ==
    data.time_matrix[from_node][to_node] + data.service_times[from_node]

\* demand_callback(from_index)
demand_callback(from_node) == data.demands[from_node]

Vehicles == 1..data.num_vehicles
Stops == (1..Len(data.time_matrix)) \ {depot}

\* RoutingIndexManager(len(time_matrix), num_vehicles, depot): every route
\* starts and ends at the depot.
Path(r) == <<depot>> \o r \o <<depot>>

RECURSIVE Orderings(_)
Orderings(S) ==
    IF S = {} THEN {<<>>}
    ELSE UNION { { <<x>> \o o : o \in Orderings(S \ {x}) } : x \in S }

Visits(route, j) ==
    { <<v, k>> \in (DOMAIN route) \X (1..Cardinality(Stops)) :
         k <= Len(route[v]) /\ route[v][k] = j }

\* nodes made optional (a disjunction per node): a node may be dropped
NodesCovered_mut(route) == \A j \in Stops : Cardinality(Visits(route, j)) <= 1

\* RoutingModel(manager) with no disjunction added: every node is mandatory
\* and has exactly one predecessor and one successor.
NodesCovered(route) == \A j \in Stops : Cardinality(Visits(route, j)) = 1

RouteAssignments ==
    { route \in [Vehicles -> UNION { Orderings(T) : T \in SUBSET Stops }] :
         NodesCovered(route) }

\* AddDimensionWithVehicleCapacity(demand_callback_index, 0,
\*     vehicle_capacities, True, 'Capacity'): the cumul starts at 0, grows
\* by demand_callback of the node left, without slack.
RECURSIVE CapacityCumul(_, _)
CapacityCumul(path, i) ==
    IF i = 1 THEN 0
    ELSE CapacityCumul(path, i - 1) + demand_callback(path[i - 1])

CapacityOk(v, r) ==
    \A i \in 1..Len(Path(r)) :
       /\ CapacityCumul(Path(r), i) >= 0
       /\ CapacityCumul(Path(r), i) <= data.vehicle_capacities[v]

\* no SetMin is posted on the route starts
CumulRange_mut(v, path, i) ==
    IF i = 1 \/ i = Len(path) THEN << 0, time_capacity >>
    ELSE << IF node_range[path[i]][1] > 0 THEN node_range[path[i]][1] ELSE 0,
            IF node_range[path[i]][2] < time_capacity THEN node_range[path[i]][2]
                                                     ELSE time_capacity >>

\* Range of the time CumulVar at position i of vehicle v's path:
\* AddDimension(..., 1440, ...) gives [0, 1440]; SetMin raises the start's
\* minimum; SetRange narrows a node's range.
CumulRange(v, path, i) ==
    IF i = 1 THEN << IF start_min[v] > 0 THEN start_min[v] ELSE 0, time_capacity >>
    ELSE IF i = Len(path) THEN << 0, time_capacity >>
    ELSE << IF node_range[path[i]][1] > 0 THEN node_range[path[i]][1] ELSE 0,
            IF node_range[path[i]][2] < time_capacity THEN node_range[path[i]][2]
                                                     ELSE time_capacity >>

InCumulRange(c, rng) == c >= rng[1] /\ c <= rng[2]

\* the wait at a node is not limited
SlackOk_mut(c, base) == c - base >= 0

\* AddDimension(transit_callback_index, 60, 1440, False, 'time'):
\* cumul(next) = cumul(node) + transit(node, next) + slack(node), with
\* slack(node) in [0, 60].
SlackOk(c, base) == c - base >= 0 /\ c - base <= slack_max

\* The values of a cumul variable the model tries: no wait, and the two
\* ends of the variable's range.
SamplePoints(base, rng) == {base, rng[1], rng[2]}

\* For a route start: leave at the release, or just in time for either end
\* of the next node's range.
StartPoints(v, path) ==
    LET rng == CumulRange(v, path, 1)
        nxt == CumulRange(v, path, 2)
        tr == time_callback(path[1], path[2])
    IN  {rng[1], nxt[1] - tr, nxt[2] - tr}

NextCumuls(v, path, i, t) ==
    LET base == t + time_callback(path[i], path[i + 1])
        rng == CumulRange(v, path, i + 1)
    IN  { c \in SamplePoints(base, rng) : SlackOk(c, base) /\ InCumulRange(c, rng) }

RECURSIVE ExtendCumuls(_, _, _)
ExtendCumuls(v, path, c) ==
    IF Len(c) = Len(path) THEN {c}
    ELSE UNION { ExtendCumuls(v, path, Append(c, t)) :
                    t \in NextCumuls(v, path, Len(c), c[Len(c)]) }

CumulSeqs(v, path) ==
    UNION { ExtendCumuls(v, path, <<t>>) :
               t \in { s \in StartPoints(v, path) :
                          InCumulRange(s, CumulRange(v, path, 1)) } }

RECURSIVE CumulProducts(_, _)
CumulProducts(route, v) ==
    IF v = 0 THEN {<<>>}
    ELSE { Append(p, c) : p \in CumulProducts(route, v - 1),
                          c \in CumulSeqs(v, Path(route[v])) }

SolverSolutions ==
    UNION { { [route |-> route, cumul |-> cumul] :
                cumul \in CumulProducts(route, data.num_vehicles) } :
            route \in { r \in RouteAssignments :
                           \A v \in Vehicles : CapacityOk(v, r[v]) } }

header == [camion |-> "Camion ID", secuencia |-> "Secuencia",
           tienda |-> "Tienda", inicio_carga |-> "Hora Inicio Carga",
           llegada |-> "Hora Llegada", salida |-> "Hora Salida",
           carga |-> "Carga Acumulada (cajas)"]

\* main(): "if solution:" ... else: nothing is extracted or exported
AfterSolve(sol) == IF sol = NoSolution THEN "done" ELSE "extract"

\* solution = routing.SolveWithParameters(search_parameters); on a solution
\* process_solution starts with the header row and vehicles_used = 0.  The
\* search is heuristic and time-limited, so None is always a possible
\* answer.
Solve ==
    /\ pc = "solve"
    /\ solve_called' = TRUE
    /\ \/ \E sol \in SolverSolutions : solution' = sol
       \/ solution' = NoSolution
    /\ pc' = AfterSolve(solution')
    /\ solution_data_for_export' =
          IF pc' = "extract" THEN <<header>> ELSE solution_data_for_export
    /\ vehicle_id' = 1
    /\ vehicles_used' = 0
    /\ UNCHANGED << HORA_INICIO_CARGA, world, df_locations, df_vehicles,
                    time_matrix, data, start_loading_times, current_time,
                    start_min, node_range, export_called, rutas >>

\* --------------------------------------------------------- process_solution
store_names == [j \in 1..Len(df_locations) |-> df_locations[j].tienda]
vehicle_ids == [v \in 1..Len(df_vehicles) |-> df_vehicles[v].id_camion]

EmptyStr == <<>>

Row(id, seq, name, load_start, arrival, departure, load) ==
    [camion |-> id, secuencia |-> seq, tienda |-> name,
     inicio_carga |-> load_start, llegada |-> arrival, salida |-> departure,
     carga |-> load]

\* [""] * len(header)
BlankRow == Row("", "", "", EmptyStr, EmptyStr, EmptyStr, "")

\* not routing.IsEnd(solution.Value(routing.NextVar(routing.Start(v))))
IsUsed(sol, v) == Len(sol.route[v]) > 0

\* sum(1 for v in range(num_vehicles) if not routing.IsEnd(...NextVar(Start(v))))
ActiveCount(sol) == Cardinality({ v \in DOMAIN sol.route : IsUsed(sol, v) })

\* 1. the depot-departure row
DepartureRow(sol, v) ==
    Row(vehicle_ids[v], 0, store_names[depot],
        FormatHHMM(start_loading_times[v]), EmptyStr,
        FormatHHMM(sol.cumul[v][1]), 0)

\* the service duration is left out of the stop's departure
VisitRow_mut(sol, v, pos, sequence, route_load) ==
    LET node_index == sol.route[v][pos]
        arrival_time_val == sol.cumul[v][pos + 1]
    IN  Row(vehicle_ids[v], sequence, store_names[node_index], EmptyStr,
            FormatHHMM(arrival_time_val), FormatHHMM(arrival_time_val),
            route_load)

\* the row appended by one pass of the visit loop, with sequence and
\* route_load already updated for the node at position pos
VisitRow(sol, v, pos, sequence, route_load) ==
    LET node_index == sol.route[v][pos]
        arrival_time_val == sol.cumul[v][pos + 1]
        departure_time_val == arrival_time_val + data.service_times[node_index]
    IN  Row(vehicle_ids[v], sequence, store_names[node_index], EmptyStr,
            FormatHHMM(arrival_time_val), FormatHHMM(departure_time_val),
            route_load)

\* 2. the "while not routing.IsEnd(index)" loop, entered at position pos of
\* the route with the loop's variables sequence, route_load and the rows
\* appended so far; returns the three when the end of the route is reached.
RECURSIVE VisitLoop(_, _, _, _, _, _)
VisitLoop(sol, v, pos, sequence, route_load, rows) ==
    IF pos > Len(sol.route[v])
    THEN [sequence |-> sequence, route_load |-> route_load, rows |-> rows]
    ELSE LET load == route_load + data.demands[sol.route[v][pos]]
         IN  VisitLoop(sol, v, pos + 1, sequence + 1, load,
                       Append(rows, VisitRow(sol, v, pos, sequence + 1, load)))

\* 3. the depot-return row
ReturnRow(sol, v, sequence, route_load) ==
    Row(vehicle_ids[v], sequence + 1, store_names[depot], EmptyStr,
        FormatHHMM(sol.cumul[v][Len(sol.cumul[v])]), EmptyStr, route_load)

\* the separator test compares with the number of vehicles
NeedsBlank_mut(used, sol) == used < Len(sol.route)

\* the separator test after a used vehicle's rows
NeedsBlank(used, sol) == used < ActiveCount(sol)

VehicleRows(sol, v, used) ==
    LET visited == VisitLoop(sol, v, 1, 0, 0, <<DepartureRow(sol, v)>>)
    IN  Append(visited.rows, ReturnRow(sol, v, visited.sequence, visited.route_load))
        \o (IF NeedsBlank(used, sol) THEN <<BlankRow>> ELSE <<>>)

\* the "continue" is missing: a vehicle that is not required gets its rows
EmittedRows_mut(sol, v, used) == VehicleRows(sol, v, used)

\* "if routing.IsEnd(solution.Value(routing.NextVar(index))): ... continue"
EmittedRows(sol, v, used) ==
    IF ~IsUsed(sol, v) THEN <<>> ELSE VehicleRows(sol, v, used)

\* One iteration of "for vehicle_id in range(data['num_vehicles'])"; the
\* last one returns the table to main().
ExtractVehicle ==
    /\ pc = "extract"
    /\ vehicle_id <= data.num_vehicles
    /\ vehicles_used' = IF IsUsed(solution, vehicle_id) THEN vehicles_used + 1
                                                        ELSE vehicles_used
    /\ solution_data_for_export' =
          solution_data_for_export
             \o EmittedRows(solution, vehicle_id, vehicles_used')
    /\ vehicle_id' = vehicle_id + 1
    /\ pc' = IF vehicle_id = data.num_vehicles THEN "export" ELSE "extract"
    /\ UNCHANGED << HORA_INICIO_CARGA, world, df_locations, df_vehicles,
                    time_matrix, data, start_loading_times, current_time,
                    start_min, node_range, solve_called, solution,
                    export_called, rutas >>

\* ------------------------------------------------- export_solution_to_sheet
\* "if len(data) > 1": the sheet "Rutas" is cleared (or created) and
\* updated; otherwise nothing is written.
Exported(table, sheet) == IF Len(table) > 1 THEN table ELSE sheet

ExportUnchanged ==
    UNCHANGED << HORA_INICIO_CARGA, world, df_locations, df_vehicles,
                 time_matrix, data, start_loading_times, current_time,
                 start_min, node_range, solve_called, solution, vehicle_id,
                 vehicles_used, solution_data_for_export >>

Export ==
    /\ pc = "export"
    /\ export_called' = TRUE
    /\ rutas' = Exported(solution_data_for_export, rutas)
    /\ pc' = "done"
    /\ ExportUnchanged

\* the sheet API raises before anything is written: caught and reported
ExportError ==
    /\ pc = "export"
    /\ export_called' = TRUE
    /\ rutas' = rutas
    /\ pc' = "done"
    /\ ExportUnchanged

Next ==
    \/ LoadData
    \/ MatrixRow
    \/ MatrixApiError
    \/ BuildModel
    \/ StaggerStep
    \/ SetWindows
    \/ Solve
    \/ ExtractVehicle
    \/ Export
    \/ ExportError

Spec == Init /\ [][Next]_vars

\* ================================================================ properties
Plan == solution_data_for_export

IsBlank(r) == r.camion = ""
IsStopRow(r) == r.llegada # EmptyStr /\ r.salida # EmptyStr
NodeOf(name) == CHOOSE j \in 1..Len(df_locations) : df_locations[j].tienda = name
VehicleOf(id) == CHOOSE v \in 1..Len(df_vehicles) : df_vehicles[v].id_camion = id
Solved == solve_called /\ solution # NoSolution
PlanComplete == Solved /\ pc \in {"export", "done"}

RECURSIVE SumLoading(_)
SumLoading(v) ==
    IF v = 0 THEN 0 ELSE SumLoading(v - 1) + df_vehicles[v].tiempo_carga_min

\* C1: after any number of iterations of the staggered-release loop, the
\* first loading start is S, each later loading start is the previous one
\* plus the previous vehicle's loading duration, each release is S plus the
\* sum of the loading durations up to and including that vehicle, both
\* sequences are non-decreasing, and S = 07:30 with durations [20, 15]
\* gives loading starts 07:30, 07:50 and releases 07:50, 08:05.
C1_StaggeredRelease ==
    LET S == time_to_minutes(HORA_INICIO_CARGA) IN
    /\ Len(start_min) = Len(start_loading_times)
    /\ \A v \in 1..Len(start_loading_times) :
          /\ start_loading_times[v] = S + SumLoading(v - 1)
          /\ start_min[v] = S + SumLoading(v)
          /\ v = 1 => start_loading_times[v] = S
          /\ v > 1 =>
               /\ start_loading_times[v] =
                     start_loading_times[v - 1] + df_vehicles[v - 1].tiempo_carga_min
               /\ start_loading_times[v - 1] <= start_loading_times[v]
               /\ start_min[v - 1] <= start_min[v]
    /\ ( /\ HORA_INICIO_CARGA = <<7, 30>>
         /\ Len(start_loading_times) = 2
         /\ Len(df_vehicles) = 2
         /\ df_vehicles[1].tiempo_carga_min = 20
         /\ df_vehicles[2].tiempo_carga_min = 15 )
       => /\ [v \in 1..2 |-> FormatHHMM(start_loading_times[v])] = << <<7, 30>>, <<7, 50>> >>
          /\ [v \in 1..2 |-> FormatHHMM(start_min[v])] = << <<7, 50>>, <<8, 5>> >>

\* C1 witness: the loop has run over three vehicles, one of them with a zero
\* loading duration and one with a positive one.
C1_Witness ==
    /\ pc = "windows"
    /\ Len(start_loading_times) = 3
    /\ df_vehicles[1].tiempo_carga_min = 20
    /\ df_vehicles[2].tiempo_carga_min = 0
    /\ df_vehicles[3].tiempo_carga_min = 15

\* C2: in the table extracted from a returned solution, every stop row has
\* an arrival inside the stop's window, and the load of every row of a
\* vehicle (the depot-return row included) is at most the vehicle's
\* capacity.
C2_WindowsAndCapacity ==
    \A i \in 2..Len(Plan) :
       LET r == Plan[i] IN
       ~IsBlank(r) =>
          /\ r.carga <= df_vehicles[VehicleOf(r.camion)].capacidad_cajas
          /\ IsStopRow(r) =>
               LET loc == df_locations[NodeOf(r.tienda)] IN
               /\ time_to_minutes(loc.hora_apertura) <= time_to_minutes(r.llegada)
               /\ time_to_minutes(r.llegada) <= time_to_minutes(loc.hora_cierre)

\* C2 witness: a finished table in which a vehicle returns loaded to its
\* full capacity and a stop is reached exactly when its window closes.
C2_Witness ==
    /\ PlanComplete
    /\ \E i \in 2..Len(Plan) :
          /\ ~IsBlank(Plan[i])
          /\ Plan[i].salida = EmptyStr
          /\ Plan[i].carga = df_vehicles[VehicleOf(Plan[i].camion)].capacidad_cajas
    /\ \E i \in 2..Len(Plan) :
          /\ ~IsBlank(Plan[i])
          /\ IsStopRow(Plan[i])
          /\ Plan[i].llegada = df_locations[NodeOf(Plan[i].tienda)].hora_cierre

StopRowsOf(name) ==
    { i \in 2..Len(Plan) :
         ~IsBlank(Plan[i]) /\ IsStopRow(Plan[i]) /\ Plan[i].tienda = name }

\* C3: in every returned solution every non-depot location is at exactly
\* one position of exactly one vehicle's route, and the finished table has
\* exactly one stop row for it (never more than one while it is built).
C3_EachStopOnce ==
    Solved =>
       \A j \in 2..Len(df_locations) :
          /\ Cardinality({ <<v, k>> \in (1..Len(solution.route)) \X (1..Len(df_locations)) :
                             k <= Len(solution.route[v]) /\ solution.route[v][k] = j }) = 1
          /\ Cardinality(StopRowsOf(df_locations[j].tienda)) <= 1
          /\ PlanComplete => Cardinality(StopRowsOf(df_locations[j].tienda)) = 1

\* C3 witness: a finished table for two stops served by two different
\* vehicles.
C3_Witness ==
    /\ PlanComplete
    /\ Len(df_locations) = 3
    /\ \E i, k \in 2..Len(Plan) :
          /\ ~IsBlank(Plan[i]) /\ ~IsBlank(Plan[k])
          /\ IsStopRow(Plan[i]) /\ IsStopRow(Plan[k])
          /\ Plan[i].camion # Plan[k].camion

\* C4: in every returned solution the time value at each vehicle's route
\* start is at least its release (loading start plus loading duration); the
\* depot-departure row of a used vehicle shows that vehicle's loading start
\* and a departure not earlier than loading start plus loading duration.
C4_DepartAfterRelease ==
    Solved =>
       /\ \A v \in 1..Len(df_vehicles) :
             solution.cumul[v][1] >=
                start_loading_times[v] + df_vehicles[v].tiempo_carga_min
       /\ \A i \in 2..Len(Plan) :
             LET r == Plan[i] IN
             (~IsBlank(r) /\ r.secuencia = 0) =>
                LET v == VehicleOf(r.camion) IN
                /\ r.inicio_carga = FormatHHMM(start_loading_times[v])
                /\ time_to_minutes(r.salida) >=
                      time_to_minutes(r.inicio_carga) + df_vehicles[v].tiempo_carga_min

\* C4 witness: the second vehicle is used and leaves the depot exactly at
\* its release, which is later than its loading start.
C4_Witness ==
    /\ PlanComplete
    /\ \E i \in 2..Len(Plan) :
          /\ ~IsBlank(Plan[i])
          /\ Plan[i].secuencia = 0
          /\ Plan[i].camion = TruckIds[2]
          /\ df_vehicles[2].tiempo_carga_min > 0
          /\ time_to_minutes(Plan[i].salida) =
                start_loading_times[2] + df_vehicles[2].tiempo_carga_min

BlankRowsOf(table) == { i \in 2..Len(table) : IsBlank(table[i]) }
UsedVehicles == { v \in 1..Len(solution.route) : Len(solution.route[v]) > 0 }

C5_NoRowOfUnused ==
    Solved =>
       \A v \in 1..Len(solution.route) :
          Len(solution.route[v]) = 0 =>
             \A i \in 2..Len(Plan) : Plan[i].camion # df_vehicles[v].id_camion

C5_UnusedStepEmitsNothing ==
    (pc = "extract" /\ Len(solution.route[vehicle_id]) = 0) => Plan' = Plan

\* C5: a vehicle whose route is trivial (start followed by end) has no row
\* in the table at any time, and the extraction step that handles it leaves
\* the table exactly as it was: no depot-departure, stop, depot-return or
\* blank row is appended for it.
C5_UnusedEmitNothing ==
    [] C5_NoRowOfUnused /\ [][C5_UnusedStepEmitsNothing]_vars

\* C5 witness: a finished table where the first vehicle is not required and
\* a later one is used.
C5_Witness ==
    /\ PlanComplete
    /\ Len(solution.route) >= 2
    /\ Len(solution.route[1]) = 0
    /\ UsedVehicles # {}
    /\ Len(Plan) > 1

\* C6: the finished table is the header followed by the used vehicles'
\* groups in vehicle input order; each group is contiguous, consecutive
\* groups are separated by exactly one blank row, the number of blank rows
\* is the number of used vehicles minus one (zero when none is used), no
\* blank row is first or last, and no two blank rows are adjacent.
C6_BlankSeparators ==
    PlanComplete =>
       LET n == Len(Plan) IN
       /\ Plan[1] = header
       /\ Cardinality(BlankRowsOf(Plan)) =
             IF UsedVehicles = {} THEN 0 ELSE Cardinality(UsedVehicles) - 1
       /\ n >= 2 => ~IsBlank(Plan[2]) /\ ~IsBlank(Plan[n])
       /\ \A v \in UsedVehicles :
             \E i \in 2..n : Plan[i].camion = df_vehicles[v].id_camion
       /\ \A i \in 2..(n - 1) :
             IF IsBlank(Plan[i])
             THEN /\ i > 2
                  /\ ~IsBlank(Plan[i - 1])
                  /\ ~IsBlank(Plan[i + 1])
                  /\ VehicleOf(Plan[i - 1].camion) < VehicleOf(Plan[i + 1].camion)
             ELSE ~IsBlank(Plan[i + 1]) => Plan[i + 1].camion = Plan[i].camion

\* C6 witness: a finished table where a used vehicle, a vehicle that is not
\* required and another used vehicle come in this order.
C6_Witness ==
    /\ PlanComplete
    /\ Len(solution.route) = 3
    /\ Len(solution.route[1]) > 0
    /\ Len(solution.route[2]) = 0
    /\ Len(solution.route[3]) > 0

MatrixComplete ==
    /\ df_locations # None
    /\ Len(time_matrix) = Len(df_locations)
    /\ \A i \in 1..Len(time_matrix) : Len(time_matrix[i]) = Len(df_locations)

\* C7: the solver is called only with both sheets loaded and a complete
\* matrix; a table is built only from a solution the solver returned; the
\* export step is invoked only with that finished table.  A run whose
\* loading failed, whose matrix could not be obtained or whose solve
\* returned nothing ends with no table and no export, the first two without
\* any solve attempt.
C7_PipelineOrder ==
    /\ (pc \in {"model", "stagger", "windows", "solve"} \/ solve_called) => MatrixComplete
    /\ (Len(Plan) > 0 \/ pc \in {"extract", "export"}) => Solved
    /\ export_called =>
          /\ Solved
          /\ pc = "done"
          /\ vehicle_id = data.num_vehicles + 1
    /\ (pc # "load" /\ df_locations = None) =>
          pc = "done" /\ ~solve_called /\ Plan = <<>> /\ ~export_called /\ rutas = <<>>
    /\ (pc \notin {"load", "matrix"} /\ ~MatrixComplete) =>
          pc = "done" /\ ~solve_called /\ Plan = <<>> /\ ~export_called /\ rutas = <<>>
    /\ (solve_called /\ solution = NoSolution) =>
          pc = "done" /\ Plan = <<>> /\ ~export_called /\ rutas = <<>>

\* C7 witness: the sheets were loaded, the matrix could not be obtained and
\* the run has ended.
C7_Witness ==
    /\ pc = "done"
    /\ df_locations # None
    /\ Len(df_locations) = 3
    /\ time_matrix = None
    /\ ~solve_called
    /\ ~export_called

RECURSIVE RouteDemand(_, _)
RouteDemand(route, k) ==
    IF k = 0 THEN 0 ELSE RouteDemand(route, k - 1) + df_locations[route[k]].demanda

FirstRowOf(id) ==
    CHOOSE i \in 2..Len(Plan) :
       /\ Plan[i].camion = id
       /\ \A m \in 2..Len(Plan) : Plan[m].camion = id => i <= m

GroupDone(v) == v < vehicle_id \/ pc \in {"export", "done"}

\* C8: once a used vehicle with k stops has been extracted, the table holds
\* exactly k + 2 rows of it, contiguous, numbered 0..k+1 in route order: the
\* depot departure with load 0; for the i-th stop the stop's name, the sum
\* of the first i demands, the time value at the node as arrival and
\* arrival plus service duration as departure; the depot return with
\* sequence k + 1, the time value at the route end as arrival, no
\* departure, and the sum of all k demands.
C8_VehicleGroup ==
    Solved =>
       \A v \in UsedVehicles :
          GroupDone(v) =>
             LET id == df_vehicles[v].id_camion
                 route == solution.route[v]
                 k == Len(route)
                 f == FirstRowOf(id)
             IN
             /\ \E i \in 2..Len(Plan) : Plan[i].camion = id
             /\ { i \in 2..Len(Plan) : Plan[i].camion = id } = f..(f + k + 1)
             /\ Plan[f].secuencia = 0
             /\ Plan[f].tienda = df_locations[depot].tienda
             /\ Plan[f].llegada = EmptyStr
             /\ time_to_minutes(Plan[f].salida) = solution.cumul[v][1]
             /\ Plan[f].carga = 0
             /\ \A i \in 1..k :
                   LET r == Plan[f + i] IN
                   /\ r.secuencia = i
                   /\ r.tienda = df_locations[route[i]].tienda
                   /\ r.inicio_carga = EmptyStr
                   /\ r.carga = RouteDemand(route, i)
                   /\ time_to_minutes(r.llegada) = solution.cumul[v][i + 1]
                   /\ time_to_minutes(r.salida) =
                         solution.cumul[v][i + 1] + df_locations[route[i]].tiempo_servicio
             /\ LET r == Plan[f + k + 1] IN
                   /\ r.secuencia = k + 1
                   /\ r.tienda = df_locations[depot].tienda
                   /\ r.salida = EmptyStr
                   /\ time_to_minutes(r.llegada) = solution.cumul[v][k + 2]
                   /\ r.carga = RouteDemand(route, k)

\* C8 witness: a finished table with a vehicle that visited two stops.
C8_Witness ==
    /\ PlanComplete
    /\ \E v \in UsedVehicles : Len(solution.route[v]) = 2

\* C9 as stated: in every returned solution the time value at every node
\* of every route lies in [60, 1440].
C9_Original ==
    Solved =>
       \A v \in 1..Len(solution.cumul) :
          \A i \in 1..Len(solution.cumul[v]) :
             solution.cumul[v][i] >= 60 /\ solution.cumul[v][i] <= 1440

\* C9 amended: 60 is the largest wait allowed at a node and 1440 the upper
\* bound of the time dimension.  In every returned solution the time value
\* at every node of every route lies in [0, 1440], and from a node to the
\* next the time value grows by the transit (travel plus service at the
\* node left) plus a wait in [0, 60].
C9_SlackAndHorizon ==
    Solved =>
       \A v \in 1..Len(solution.cumul) :
          LET c == solution.cumul[v]
              path == <<depot>> \o solution.route[v] \o <<depot>>
          IN
          /\ Len(c) = Len(path)
          /\ \A i \in 1..Len(c) : c[i] >= 0 /\ c[i] <= 1440
          /\ \A i \in 1..(Len(c) - 1) :
                LET wait == c[i + 1] - c[i]
                              - time_matrix[path[i]][path[i + 1]]
                              - df_locations[path[i]].tiempo_servicio
                IN wait >= 0 /\ wait <= 60

\* C9 witness: a returned solution in which a used vehicle leaves the depot
\* before minute 60 and waits at its stop.
C9_Witness ==
    /\ Solved
    /\ \E v \in UsedVehicles :
          /\ solution.cumul[v][1] < 60
          /\ solution.cumul[v][2] >
                solution.cumul[v][1] + time_matrix[depot][solution.route[v][1]]
                   + df_locations[depot].tiempo_servicio

ValidClock(t) == t[1] >= 0 /\ t[1] <= 23 /\ t[2] >= 0 /\ t[2] <= 59

\* C10: every non-empty time cell of every row of the table (loading start,
\* arrival, departure) is a valid 24-hour clock string, hours 00..23 and
\* minutes 00..59.
C10_ValidClocks ==
    \A i \in 2..Len(Plan) :
       LET r == Plan[i] IN
       ~IsBlank(r) =>
          /\ r.inicio_carga # EmptyStr => ValidClock(r.inicio_carga)
          /\ r.llegada # EmptyStr => ValidClock(r.llegada)
          /\ r.salida # EmptyStr => ValidClock(r.salida)

====
